---------------------------- MODULE Spec2Model ----------------------------
(***************************************************************************)
(* A model of package cover (minimum set cover): the Cover type with its   *)
(* incidence store (inss, ines), its working snapshot (ss, es) and its     *)
(* essential set, Add, and Minimize with initialize, simplify, reduceS,    *)
(* reduceE, removeS, removeE, dominates and the search.                    *)
(*                                                                         *)
(* A Go map is a function whose DOMAIN is the map's key set.  Ranging over *)
(* a map visits its keys in an unspecified order and never produces a key  *)
(* deleted before it was reached: a loop is an iterator (the set of keys   *)
(* not yet produced) and each iteration is one step that picks any of      *)
(* them.                                                                   *)
(***************************************************************************)
EXTENDS Integers, Sequences, FiniteSets, TLC

\* Bounds of the model.
NumSubsets == 3
NumElements == 3
MaxArgs == 2
NumThreads == 2
MaxConcPairs == 3
NumDeepSubsets == 4
NumDeepElements == 4
MaxDeepPairs == 8
MaxLen == 6

Subsets == 1..NumSubsets
Elements == (10 + 1)..(10 + NumElements)
Threads == 1..NumThreads
DeepSubsets == 1..NumDeepSubsets
DeepElements == (10 + 1)..(10 + NumDeepElements)

VARIABLES
    c,          \* the Cover: [inss, ines, ss, es, essential]
    th,         \* per goroutine: position in Minimize and its local variables
    added,      \* history: every (subset, element) pair supplied to Add so far
    lastCall    \* history: the kind of the last completed call on the Cover

vars == <<c, th, added, lastCall>>

-----------------------------------------------------------------------------
\* Maps.

EmptyMap == [k \in {} |-> {}]

\* m[k] of a Go map of sets: the zero value (a nil map, no keys) when k is absent.
Get(m, k) == IF k \in DOMAIN m THEN m[k] ELSE {}

\* delete(m, k)
Delete(m, k) == [x \in DOMAIN m \ {k} |-> m[x]]

\* m[k] = make(...) when k is absent
Ensure(m, k) == IF k \in DOMAIN m THEN m ELSE [x \in DOMAIN m \cup {k} |-> IF x = k THEN {} ELSE m[x]]

\* m[k][v] = struct{}{} for a key k of m
Insert(m, k, v) == [m EXCEPT ![k] = @ \cup {v}]

\* All sequences over S of length at most n.
SeqsUpTo(S, n) == UNION {[1..k -> S] : k \in 0..n}

Range(q) == {q[i] : i \in 1..Len(q)}

-----------------------------------------------------------------------------
\* The Cover.

New ==
    [inss |-> EmptyMap, ines |-> EmptyMap, ss |-> EmptyMap, es |-> EmptyMap,
     essential |-> {}]

\* The body of Add's loop, from argument i on.  The first mutant records s for e
\* only when e is new.
RECURSIVE AddLoopNewElementsOnly(_, _, _, _)
AddLoopNewElementsOnly(cv, s, args, i) ==
    IF i > Len(args) THEN cv
    ELSE LET e == args[i]
             ines1 == Ensure(cv.ines, e)
         IN  AddLoopNewElementsOnly(
                 [cv EXCEPT !.inss = Insert(cv.inss, s, e),
                            !.ines = IF e \in DOMAIN cv.ines THEN cv.ines ELSE Insert(ines1, e, s)],
                 s, args, i + 1)

RECURSIVE AddLoop(_, _, _, _)
AddLoop(cv, s, args, i) ==
    IF i > Len(args) THEN cv
    ELSE LET e == args[i]
             ines1 == Ensure(cv.ines, e)
         IN  AddLoop([cv EXCEPT !.inss = Insert(cv.inss, s, e),
                                !.ines = Insert(ines1, e, s)],
                     s, args, i + 1)

\* Add; the mutants: without the return for no Elements, and making c.inss[s] anew
\* on every call.
AddNoReturn(cv, s, args) ==
    AddLoop([cv EXCEPT !.inss = Ensure(cv.inss, s)], s, args, 1)

AddOverwrite(cv, s, args) ==
    IF Len(args) = 0 THEN cv
    ELSE AddLoop([cv EXCEPT !.inss = Ensure(Delete(cv.inss, s), s)], s, args, 1)

\* A third mutant: Add also makes c.ss[s].
AddIntoSnapshot(cv, s, args) ==
    IF Len(args) = 0 THEN cv
    ELSE AddLoop([cv EXCEPT !.inss = Ensure(cv.inss, s), !.ss = Ensure(cv.ss, s)],
                 s, args, 1)

Add(cv, s, args) ==
    IF Len(args) = 0 THEN cv
    ELSE AddLoop([cv EXCEPT !.inss = Ensure(cv.inss, s)], s, args, 1)

\* copies c.inss into c.ss and c.ines into c.es, and clears c.essential.  The
\* mutants: c.essential is kept; a snapshot that is not empty is kept.
initializeKeepEssential(cv) ==
    [cv EXCEPT !.ss = [s \in DOMAIN cv.inss |-> {e \in cv.inss[s] : TRUE}],
               !.es = [e \in DOMAIN cv.ines |-> {s \in cv.ines[e] : TRUE}]]

initializeKeepSnapshot(cv) ==
    IF DOMAIN cv.ss = {} /\ DOMAIN cv.es = {}
    THEN [cv EXCEPT !.ss = [s \in DOMAIN cv.inss |-> {e \in cv.inss[s] : TRUE}],
                    !.es = [e \in DOMAIN cv.ines |-> {s \in cv.ines[e] : TRUE}],
                    !.essential = {}]
    ELSE [cv EXCEPT !.essential = {}]

initialize(cv) ==
    [cv EXCEPT !.ss = [s \in DOMAIN cv.inss |-> {e \in cv.inss[s] : TRUE}],
               !.es = [e \in DOMAIN cv.ines |-> {s \in cv.ines[e] : TRUE}],
               !.essential = {}]

\* removeS removes s from c.ss and c.es; the mutants: also from the store; from
\* c.ss only.
removeSFromStore(cv, s) ==
    [cv EXCEPT !.es = [e \in DOMAIN cv.es |-> IF e \in Get(cv.ss, s) THEN cv.es[e] \ {s} ELSE cv.es[e]],
               !.ss = Delete(cv.ss, s),
               !.ines = [e \in DOMAIN cv.ines |-> IF e \in Get(cv.ss, s) THEN cv.ines[e] \ {s} ELSE cv.ines[e]],
               !.inss = Delete(cv.inss, s)]

removeSFromSsOnly(cv, s) == [cv EXCEPT !.ss = Delete(cv.ss, s)]

removeS(cv, s) ==
    [cv EXCEPT !.es = [e \in DOMAIN cv.es |-> IF e \in Get(cv.ss, s) THEN cv.es[e] \ {s} ELSE cv.es[e]],
               !.ss = Delete(cv.ss, s)]

\* removeE removes e from c.  The mutants: e stays a key of c.es; e stays in the
\* Subsets of c.ss.
removeEFromSsOnly(cv, e) ==
    [cv EXCEPT !.ss = [s \in DOMAIN cv.ss |-> IF s \in Get(cv.es, e) THEN cv.ss[s] \ {e} ELSE cv.ss[s]]]

removeEFromEsOnly(cv, e) == [cv EXCEPT !.es = Delete(cv.es, e)]

removeE(cv, e) ==
    [cv EXCEPT !.ss = [s \in DOMAIN cv.ss |-> IF s \in Get(cv.es, e) THEN cv.ss[s] \ {e} ELSE cv.ss[s]],
               !.es = Delete(cv.es, e)]

\* dominates reports whether a's Elements are a proper superset of b's.
\* The mutants: one compares the sizes only, one takes a superset for a proper
\* superset.
dominatesBySize(cv, a, b) ==
    Cardinality(Get(cv.ss, a)) > Cardinality(Get(cv.ss, b))

dominatesOrEqual(cv, a, b) ==
    /\ \A e \in Get(cv.ss, b) : e \in Get(cv.ss, a)
    /\ Cardinality(Get(cv.ss, a)) >= Cardinality(Get(cv.ss, b))

dominates(cv, a, b) ==
    /\ \A e \in Get(cv.ss, b) : e \in Get(cv.ss, a)
    /\ Cardinality(Get(cv.ss, a)) > Cardinality(Get(cv.ss, b))

\* One iteration of reduceS's inner loop, for d and s: whether s is removed.  The
\* mutant asks whether s dominates d.
reduceSRemovesSwapped(cv, d, s) == ~(d = s \/ ~dominates(cv, s, d))

reduceSRemoves(cv, d, s) == ~(d = s \/ ~dominates(cv, d, s))

reduceSBody(cv, d, s) == IF reduceSRemoves(cv, d, s) THEN removeS(cv, s) ELSE cv

\* for ee := range c.ss[s] { c.removeE(ee) }: produced holds the keys already visited.
RECURSIVE removeEs(_, _, _)
removeEs(cv, s, produced) ==
    LET left == Get(cv.ss, s) \ produced
    IN  IF left = {} THEN cv
        ELSE LET ee == CHOOSE x \in left : TRUE
             IN  removeEs(removeE(cv, ee), s, produced \cup {ee})

\* One iteration of reduceE's loop, for e: whether e has exactly one Subset.  The
\* mutant goes on when len(c.es[e]) != 0.
reduceEAppliesWhenNone(cv, e) == ~(Cardinality(Get(cv.es, e)) # 0)

reduceEApplies(cv, e) == ~(Cardinality(Get(cv.es, e)) # 1)

\* for s = range c.es[e] {}: the only key of c.es[e]
onlySubset(cv, e) == CHOOSE s \in cv.es[e] : TRUE

\* The body of reduceE's loop.  The mutants: the Elements of the essential Subset
\* stay in c.es; the essential Subset stays in c.ss.
reduceEBodyKeepsElements(cv, e) ==
    IF reduceEApplies(cv, e)
    THEN LET s == onlySubset(cv, e)
         IN  removeS([cv EXCEPT !.essential = @ \cup {s}], s)
    ELSE cv

reduceEBodyKeepsSubset(cv, e) ==
    IF reduceEApplies(cv, e)
    THEN LET s == onlySubset(cv, e)
             c1 == removeEs(cv, s, {})
         IN  [c1 EXCEPT !.essential = @ \cup {s}]
    ELSE cv

\* A third mutant: s is not put in c.essential.
reduceEBodyForgetsEssential(cv, e) ==
    IF reduceEApplies(cv, e)
    THEN LET s == onlySubset(cv, e)
         IN  removeS(removeEs(cv, s, {}), s)
    ELSE cv

reduceEBody(cv, e) ==
    IF reduceEApplies(cv, e)
    THEN LET s == onlySubset(cv, e)
             c1 == removeEs(cv, s, {})
             c2 == [c1 EXCEPT !.essential = @ \cup {s}]
         IN  removeS(c2, s)
    ELSE cv

\* simplify's result: len(c.es) == 0; the mutant reports the opposite.
simplifyResultNegated(cv) == Cardinality(DOMAIN cv.es) # 0

simplifyResult(cv) == Cardinality(DOMAIN cv.es) = 0

-----------------------------------------------------------------------------
\* The search of Minimize (all Subset unions by bitmask).

RECURSIVE Perms(_)
Perms(S) == IF S = {} THEN {<<>>} ELSE UNION {{<<x>> \o p : p \in Perms(S \ {x})} : x \in S}

\* n&(1<<i) != 0, for the Go index i (the sequence index i + 1)
Bit(n, i) == (n \div (2 ^ i)) % 2 = 1

\* n encodes a covering set: every Element of c.es has a considered Subset of ss.
\* The mutant is content with one covered Element.
isCoverOfSome(cv, ss, n) ==
    \E e \in DOMAIN cv.es : \E i \in 0..(Len(ss) - 1) : Bit(n, i) /\ ss[i + 1] \in cv.es[e]

isCover(cv, ss, n) ==
    \A e \in DOMAIN cv.es : \E i \in 0..(Len(ss) - 1) : Bit(n, i) /\ ss[i + 1] \in cv.es[e]

RECURSIVE selected(_, _, _)
selected(ss, n, i) ==
    IF i >= Len(ss) THEN <<>>
    ELSE (IF Bit(n, i) THEN <<ss[i + 1]>> ELSE <<>>) \o selected(ss, n, i + 1)

\* covers after the loop N, from n on.  The mutant leaves the loop at the first
\* covering set.
RECURSIVE allCoversFirstOnly(_, _, _, _)
allCoversFirstOnly(cv, ss, ess, n) ==
    IF ~(n < 2 ^ Len(ss)) THEN <<>>
    ELSE IF isCover(cv, ss, n) THEN <<ess \o selected(ss, n, 0)>>
    ELSE allCoversFirstOnly(cv, ss, ess, n + 1)

\* A second mutant: the loop goes on while n < 1<<(len(ss)+1).
RECURSIVE allCoversPastEnd(_, _, _, _)
allCoversPastEnd(cv, ss, ess, n) ==
    IF ~(n < 2 ^ (Len(ss) + 1)) THEN <<>>
    ELSE (IF isCover(cv, ss, n) THEN <<ess \o selected(ss, n, 0)>> ELSE <<>>)
         \o allCoversPastEnd(cv, ss, ess, n + 1)

RECURSIVE allCovers(_, _, _, _)
allCovers(cv, ss, ess, n) ==
    IF ~(n < 2 ^ Len(ss)) THEN <<>>
    ELSE (IF isCover(cv, ss, n) THEN <<ess \o selected(ss, n, 0)>> ELSE <<>>)
         \o allCovers(cv, ss, ess, n + 1)

\* The indices of covers of the least length: what covers[:i] holds after the sort.
\* The mutant returns covers whole.
shortestOrLonger(covers) == 1..Len(covers)

shortest(covers) ==
    {i \in 1..Len(covers) : \A j \in 1..Len(covers) : Len(covers[i]) <= Len(covers[j])}

\* The returned slice for one outcome q (an order of shortest(covers)) of the
\* sort, which keeps no order among covers of equal length.
sorted(covers, q) == [i \in 1..Len(q) |-> covers[q[i]]]

-----------------------------------------------------------------------------
\* The search of Minimize in the version that keeps the Cover in a bipartite
\* graph (all Subset unions of width 1, then 2, and so on, by nextPerm).  A
\* []bool is a sequence of BOOLEAN; the Go index i is the sequence index i + 1.

At(b, i) == b[i + 1]

\* b with the entries at the Go indices i and k exchanged
Swap(b, i, k) ==
    [x \in 1..Len(b) |-> IF x = i + 1 THEN b[k + 1] ELSE IF x = k + 1 THEN b[i + 1] ELSE b[x]]

\* for ; !b[j] || b[j+1]; j-- { if j == 0 { return false } }: the j found, or -1
\* for the return
RECURSIVE findJ(_, _)
findJ(b, j) ==
    IF ~At(b, j) \/ At(b, j + 1)
    THEN IF j = 0 THEN -1 ELSE findJ(b, j - 1)
    ELSE j

\* for b[l] { l-- }
RECURSIVE findL(_, _)
findL(b, l) == IF At(b, l) THEN findL(b, l - 1) ELSE l

\* for k, l := j+1, len(b)-1; k < l; k, l = k+1, l-1 { b[k], b[l] = b[l], b[k] }
RECURSIVE reverseFrom(_, _, _)
reverseFrom(b, k, l) == IF k < l THEN reverseFrom(Swap(b, k, l), k + 1, l - 1) ELSE b

\* nextPerm: b after the call, and the result.  The mutant leaves out the last
\* loop.
nextPermNoReverse(b) ==
    IF Len(b) < 2 THEN [b |-> b, more |-> FALSE]
    ELSE LET j == findJ(b, Len(b) - 2)
         IN  IF j = -1 THEN [b |-> b, more |-> FALSE]
             ELSE [b |-> Swap(b, j, findL(b, Len(b) - 1)), more |-> TRUE]

nextPerm(b) ==
    IF Len(b) < 2 THEN [b |-> b, more |-> FALSE]
    ELSE LET j == findJ(b, Len(b) - 2)
         IN  IF j = -1 THEN [b |-> b, more |-> FALSE]
             ELSE LET l == findL(b, Len(b) - 1)
                  IN  [b |-> reverseFrom(Swap(b, j, l), j + 1, Len(b) - 1), more |-> TRUE]

\* b := make([]bool, n); for i := 0; i < w; i++ { b[i] = true }
firstVector(n, w) == [x \in 1..n |-> x <= w]

\* The graph c.m holds the snapshot: its A nodes are the keys of c.ss, its B nodes
\* the keys of c.es, and s and e are adjacent when s holds e.
Adjacent(cv, s, e) == e \in Get(cv.ss, s)

DegA(cv, s) == Cardinality(Get(cv.ss, s))

\* ss after sort.Slice by descending DegA: the sort keeps no order among Subsets
\* of equal degree.
sortedByDegree(cv, ss) ==
    \A i, k \in 1..Len(ss) : i < k => DegA(cv, ss[i]) >= DegA(cv, ss[k])

\* ok after the loop over c.m.Bs(): b encodes a covering set.  ok is declared
\* false and set in the loop only.
isCoverByVector(cv, ss, b) ==
    /\ DOMAIN cv.es # {}
    /\ \A e \in DOMAIN cv.es :
          \E i \in 0..(Len(ss) - 1) : At(b, i) /\ Adjacent(cv, ss[i + 1], e)

RECURSIVE selectedByVector(_, _, _)
selectedByVector(ss, b, i) ==
    IF i >= Len(ss) THEN <<>>
    ELSE (IF At(b, i) THEN <<ss[i + 1]>> ELSE <<>>) \o selectedByVector(ss, b, i + 1)

\* The covers appended at one width, from the vector b on, until nextPerm returns
\* false.
RECURSIVE coversOfWidth(_, _, _, _)
coversOfWidth(cv, ss, ess, b) ==
    LET np == nextPerm(b)
    IN  (IF isCoverByVector(cv, ss, b) THEN <<ess \o selectedByVector(ss, b, 0)>> ELSE <<>>)
        \o (IF np.more THEN coversOfWidth(cv, ss, ess, np.b) ELSE <<>>)

\* for w := 1; w <= len(ss); w++, from w on: covers, and the last width searched
\* (0 if none).  The mutant does not leave the loop when covers is not empty.
RECURSIVE searchByWidthAllWidths(_, _, _, _)
searchByWidthAllWidths(cv, ss, ess, w) ==
    IF ~(w <= Len(ss)) THEN [covers |-> <<>>, w |-> 0]
    ELSE LET covers == coversOfWidth(cv, ss, ess, firstVector(Len(ss), w))
             rest == searchByWidthAllWidths(cv, ss, ess, w + 1)
         IN  [covers |-> covers \o rest.covers, w |-> IF rest.w = 0 THEN w ELSE rest.w]

RECURSIVE searchByWidth(_, _, _, _)
searchByWidth(cv, ss, ess, w) ==
    IF ~(w <= Len(ss)) THEN [covers |-> <<>>, w |-> 0]
    ELSE LET covers == coversOfWidth(cv, ss, ess, firstVector(Len(ss), w))
         IN  IF Len(covers) > 0 THEN [covers |-> covers, w |-> w]
             ELSE LET rest == searchByWidth(cv, ss, ess, w + 1)
                  IN  [covers |-> rest.covers, w |-> IF rest.w = 0 THEN w ELSE rest.w]

-----------------------------------------------------------------------------
\* Minimize run to its end by one caller on a Cover of its own, as a function of
\* the Cover: [c, ok] is the Cover after a call and the call's result.

\* reduceS's inner loop for d, with the keys it still produces
RECURSIVE reduceSInnerRun(_, _, _)
reduceSInnerRun(r, d, it) ==
    IF it = {} THEN r
    ELSE LET s == CHOOSE x \in it : TRUE
             c1 == reduceSBody(r.c, d, s)
         IN  reduceSInnerRun([c |-> c1, ok |-> r.ok \/ reduceSRemoves(r.c, d, s)],
                             d, (it \ {s}) \cap DOMAIN c1.ss)

RECURSIVE reduceSOuterRun(_, _)
reduceSOuterRun(r, it) ==
    IF it = {} THEN r
    ELSE LET d == CHOOSE x \in it : TRUE
             r1 == reduceSInnerRun(r, d, DOMAIN r.c.ss)
         IN  reduceSOuterRun(r1, (it \ {d}) \cap DOMAIN r1.c.ss)

reduceS(cv) == reduceSOuterRun([c |-> cv, ok |-> FALSE], DOMAIN cv.ss)

RECURSIVE reduceERun(_, _)
reduceERun(r, it) ==
    IF it = {} THEN r
    ELSE LET e == CHOOSE x \in it : TRUE
             c1 == reduceEBody(r.c, e)
         IN  reduceERun([c |-> c1, ok |-> r.ok \/ reduceEApplies(r.c, e)],
                        (it \ {e}) \cap DOMAIN c1.es)

reduceE(cv) == reduceERun([c |-> cv, ok |-> FALSE], DOMAIN cv.es)

\* for c.reduceE() && c.reduceS() {}
RECURSIVE simplifyLoop(_)
simplifyLoop(cv) ==
    LET re == reduceE(cv)
    IN  IF ~re.ok THEN re.c
        ELSE LET rs == reduceS(re.c)
             IN  IF ~rs.ok THEN rs.c ELSE simplifyLoop(rs.c)

simplify(cv) ==
    LET c1 == simplifyLoop(reduceS(cv).c)
    IN  [c |-> c1, ok |-> simplifyResult(c1)]

Minimize(cv) ==
    LET r == simplify(initialize(cv))
        ess == CHOOSE q \in Perms(r.c.essential) : TRUE
        ss == CHOOSE q \in Perms(DOMAIN r.c.ss) : TRUE
        covers == allCovers(r.c, ss, ess, 1)
    IN  IF r.ok THEN <<ess>>
        ELSE sorted(covers, CHOOSE q \in Perms(shortest(covers)) : TRUE)

\* A new Cover to which every pair of P has been added, one Add per pair.
RECURSIVE CoverOf(_)
CoverOf(P) ==
    IF P = {} THEN New
    ELSE LET p == CHOOSE x \in P : TRUE
         IN  Add(CoverOf(P \ {p}), p[1], <<p[2]>>)

-----------------------------------------------------------------------------
\* The callers.  A goroutine is idle or inside one Minimize call.

\* The working fields of a Cover.
Snapshot(cv) == [ss |-> cv.ss, es |-> cv.es, essential |-> cv.essential]

IdleThread ==
    [pc |-> "idle", first |-> FALSE, ok |-> FALSE, d |-> 0,
     itD |-> {}, itS |-> {}, itE |-> {}, fD |-> FALSE, fS |-> FALSE, fE |-> FALSE,
     isUnique |-> FALSE, ess |-> <<>>, result |-> <<>>, alone |-> TRUE, stale |-> {},
     entry |-> Snapshot(New), round |-> Snapshot(New),
     b |-> <<>>, w |-> 0, more |-> FALSE, seen |-> <<>>]

\* The pairs args supplies for s.
PairsOf(s, args) == {<<s, args[i]>> : i \in 1..Len(args)}

\* The pairs a map of the store records.
StorePairs(cv) == {p \in Subsets \X Elements : p[1] \in DOMAIN cv.inss /\ p[2] \in cv.inss[p[1]]}

AddKind(cv, s, args) ==
    IF Len(args) = 0 THEN "Add0"
    ELSE IF \/ PairsOf(s, args) \cap StorePairs(cv) # {}
            \/ Cardinality(PairsOf(s, args)) < Len(args)
         THEN "AddDup"
         ELSE "AddNew"

\* The other goroutines, after goroutine t deleted the keys delS of c.ss and delE
\* of c.es in place: an iterator over the same map no longer produces them; an
\* iterator over a map that initialize has since replaced (f..) is not affected.
\* With bystander, a goroutine inside a call is no longer alone.
Others(t, delS, delE, l) ==
    [u \in Threads |->
        IF u = t THEN l
        ELSE [th[u] EXCEPT !.itD = IF th[u].fD THEN @ ELSE @ \ delS,
                           !.itS = IF th[u].fS THEN @ ELSE @ \ delS,
                           !.itE = IF th[u].fE THEN @ ELSE @ \ delE,
                           !.alone = @ /\ th[u].pc \in {"idle", "done"}]]

\* The other goroutines after goroutine t replaced c.ss and c.es by new maps:
\* their running loops range over the old maps, which nothing changes any more.
OthersFrozen(t, l) ==
    [u \in Threads |->
        IF u = t THEN l
        ELSE [th[u] EXCEPT !.fD = th[u].pc \in {"reduceS", "reduceS_inner"},
                           !.fS = th[u].pc = "reduceS_inner",
                           !.fE = th[u].pc = "reduceE",
                           !.alone = @ /\ th[u].pc \in {"idle", "done"}]]

\* A goroutine is inside a Minimize call.  alone: no other goroutine has been
\* inside a call since this call began.  stale: c.essential when the call began.
\* entry: the snapshot when the running reduceS or reduceE was entered.
\* round: the snapshot when the running iteration of simplify's loop began.
\* b, w: the search's selection vector and width; more: nextPerm's last result;
\* seen: the vectors b has held at this width, in order.
Running(u) == th[u].pc \notin {"idle", "done", "fatal"}

\* Add(s, args...)
AddCall(t, s, args) ==
    /\ \A u \in Threads : th[u].pc = "idle"
    /\ c' = Add(c, s, args)
    /\ added' = added \cup PairsOf(s, args)
    /\ lastCall' = AddKind(c, s, args)
    /\ UNCHANGED th

\* Minimize: c.initialize()
MinimizeCall(t) ==
    /\ th[t].pc = "idle"
    /\ c' = initialize(c)
    /\ th' = OthersFrozen(t, [IdleThread EXCEPT !.pc = "call_reduceS", !.first = TRUE,
                                               !.stale = c.essential,
                                               !.alone = \A u \in Threads \ {t} : ~Running(u)])
    /\ lastCall' = "Minimize"
    /\ UNCHANGED added

\* reduceS: var ok bool; for d := range c.ss
reduceSBegin(t) ==
    /\ th[t].pc = "call_reduceS"
    /\ th' = Others(t, {}, {}, [th[t] EXCEPT !.pc = "reduceS", !.ok = FALSE,
                                            !.itD = DOMAIN c.ss, !.fD = FALSE,
                                            !.entry = Snapshot(c)])
    /\ UNCHANGED <<c, added, lastCall>>

\* reduceS, outer loop: the next d and for s := range c.ss, or return ok to simplify.
\* The mutant is simplify with c.reduceS() && the loop: the first reduceS ends
\* simplify when it removed nothing.
reduceSOuterEndsSimplify(t) ==
    /\ th[t].pc = "reduceS"
    /\ IF th[t].itD = {}
       THEN th' = Others(t, {}, {},
                    [th[t] EXCEPT !.pc = IF th[t].ok THEN "call_reduceE" ELSE "simplify_return",
                                  !.first = FALSE, !.ok = FALSE, !.d = 0, !.fD = FALSE])
       ELSE \E d \in th[t].itD :
               th' = Others(t, {}, {},
                       [th[t] EXCEPT !.pc = "reduceS_inner", !.d = d, !.itD = @ \ {d},
                                     !.itS = DOMAIN c.ss, !.fS = FALSE])
    /\ UNCHANGED <<c, added, lastCall>>

reduceSOuter(t) ==
    /\ th[t].pc = "reduceS"
    /\ IF th[t].itD = {}
       THEN th' = Others(t, {}, {},
                    [th[t] EXCEPT !.pc = IF th[t].first \/ th[t].ok THEN "call_reduceE"
                                         ELSE "simplify_return",
                                  !.first = FALSE, !.ok = FALSE, !.d = 0, !.fD = FALSE])
       ELSE \E d \in th[t].itD :
               th' = Others(t, {}, {},
                       [th[t] EXCEPT !.pc = "reduceS_inner", !.d = d, !.itD = @ \ {d},
                                     !.itS = DOMAIN c.ss, !.fS = FALSE])
    /\ UNCHANGED <<c, added, lastCall>>

\* reduceS, inner loop: the next s, removed when d dominates it
reduceSInner(t) ==
    /\ th[t].pc = "reduceS_inner"
    /\ IF th[t].itS = {}
       THEN /\ th' = Others(t, {}, {}, [th[t] EXCEPT !.pc = "reduceS", !.fS = FALSE])
            /\ c' = c
       ELSE \E s \in th[t].itS :
               LET rm == reduceSRemoves(c, th[t].d, s)
                   del == IF rm THEN {s} ELSE {}
               IN  /\ c' = reduceSBody(c, th[t].d, s)
                   /\ th' = Others(t, del, {},
                          [th[t] EXCEPT !.itS = IF th[t].fS THEN @ \ {s} ELSE @ \ ({s} \cup del),
                                        !.itD = IF th[t].fD THEN @ ELSE @ \ del,
                                        !.ok = @ \/ rm])
    /\ UNCHANGED <<added, lastCall>>

\* reduceE: var ok bool; for e := range c.es
reduceEBegin(t) ==
    /\ th[t].pc = "call_reduceE"
    /\ th' = Others(t, {}, {}, [th[t] EXCEPT !.pc = "reduceE", !.ok = FALSE,
                                            !.itE = DOMAIN c.es, !.fE = FALSE,
                                            !.entry = Snapshot(c), !.round = Snapshot(c)])
    /\ UNCHANGED <<c, added, lastCall>>

\* reduceE, loop: the next e, whose only Subset becomes essential; or return ok
reduceELoop(t) ==
    /\ th[t].pc = "reduceE"
    /\ IF th[t].itE = {}
       THEN /\ th' = Others(t, {}, {},
                       [th[t] EXCEPT !.pc = IF th[t].ok THEN "call_reduceS" ELSE "simplify_return",
                                     !.ok = FALSE, !.fE = FALSE])
            /\ c' = c
       ELSE \E e \in th[t].itE :
               LET c1 == reduceEBody(c, e)
                   delE == DOMAIN c.es \ DOMAIN c1.es
                   delS == DOMAIN c.ss \ DOMAIN c1.ss
               IN  /\ c' = c1
                   /\ th' = Others(t, delS, delE,
                          [th[t] EXCEPT !.itE = IF th[t].fE THEN @ \ {e} ELSE @ \ ({e} \cup delE),
                                        !.ok = @ \/ reduceEApplies(c, e)])
    /\ UNCHANGED <<added, lastCall>>

\* simplify: return len(c.es) == 0.  The mutant always reports true.
simplifyReturnAlwaysTrue(t) ==
    /\ th[t].pc = "simplify_return"
    /\ th' = Others(t, {}, {}, [th[t] EXCEPT !.pc = "ess", !.isUnique = TRUE,
                                            !.entry = Snapshot(New),
                                            !.round = Snapshot(New)])
    /\ UNCHANGED <<c, added, lastCall>>

simplifyReturn(t) ==
    /\ th[t].pc = "simplify_return"
    /\ th' = Others(t, {}, {}, [th[t] EXCEPT !.pc = "ess", !.isUnique = simplifyResult(c),
                                            !.entry = Snapshot(New),
                                            !.round = Snapshot(New)])
    /\ UNCHANGED <<c, added, lastCall>>

\* Minimize: ess from c.essential (in any order); return [][]Subset{ess} if ok.
\* The mutant goes on to the search whatever simplify returned.
MinimizeEssAlwaysSearches(t) ==
    /\ th[t].pc = "ess"
    /\ \E ess \in Perms(c.essential) :
          th' = Others(t, {}, {}, [th[t] EXCEPT !.pc = "search", !.ess = ess])
    /\ UNCHANGED <<c, added, lastCall>>

MinimizeEss(t) ==
    /\ th[t].pc = "ess"
    /\ \E ess \in Perms(c.essential) :
          th' = Others(t, {}, {},
                  IF th[t].isUnique
                  THEN [th[t] EXCEPT !.pc = "done", !.result = <<ess>>]
                  ELSE [th[t] EXCEPT !.pc = "search", !.ess = ess])
    /\ UNCHANGED <<c, added, lastCall>>

\* Minimize: the search over c.ss (in any order), the sort, and the return
MinimizeSearch(t) ==
    /\ th[t].pc = "search"
    /\ \E ss \in Perms(DOMAIN c.ss) :
          LET covers == allCovers(c, ss, th[t].ess, 1)
          IN  \E q \in Perms(shortest(covers)) :
                 th' = Others(t, {}, {},
                         [th[t] EXCEPT !.pc = "done", !.ess = <<>>,
                                       !.result = sorted(covers, q),
                                       !.w = Len(ss)])
    /\ UNCHANGED <<c, added, lastCall>>

\* Minimize in the version with the bipartite graph: the search by width over
\* c.m.As() sorted by descending degree, and the return.  th[t].w records the
\* widest selection enumerated; in MinimizeSearch above the last n, 1<<len(ss) - 1,
\* selects all of ss.
MinimizeSearchByWidth(t) ==
    /\ th[t].pc = "search"
    /\ \E ss \in Perms(DOMAIN c.ss) :
          /\ sortedByDegree(c, ss)
          /\ LET r == searchByWidth(c, ss, th[t].ess, 1)
             IN  th' = Others(t, {}, {},
                         [th[t] EXCEPT !.pc = "done", !.ess = <<>>,
                                       !.result = r.covers, !.w = r.w])
    /\ UNCHANGED <<c, added, lastCall>>

\* The caller takes the result.
Return(t) ==
    /\ th[t].pc = "done"
    /\ th' = [th EXCEPT ![t] = IdleThread]
    /\ UNCHANGED <<c, added, lastCall>>

MinimizeStep(t) ==
    \/ MinimizeCall(t)
    \/ reduceSBegin(t)
    \/ reduceSOuter(t)
    \/ reduceSInner(t)
    \/ reduceEBegin(t)
    \/ reduceELoop(t)
    \/ simplifyReturn(t)
    \/ MinimizeEss(t)
    \/ MinimizeSearch(t)
    \/ Return(t)

-----------------------------------------------------------------------------
\* One caller: any sequence of Add and Minimize calls on a new Cover.

Init ==
    /\ c = New
    /\ th = [t \in Threads |-> IdleThread]
    /\ added = {}
    /\ lastCall = "New"

Next ==
    \/ \E s \in Subsets, args \in SeqsUpTo(Elements, MaxArgs) : AddCall(1, s, args)
    \/ MinimizeStep(1)

Spec == Init /\ [][Next]_vars

\* The steps of a Minimize call between its first statement and its return.
MinimizeRun(t) ==
    \/ reduceSBegin(t)
    \/ reduceSOuter(t)
    \/ reduceSInner(t)
    \/ reduceEBegin(t)
    \/ reduceELoop(t)
    \/ simplifyReturn(t)
    \/ MinimizeEss(t)
    \/ MinimizeSearch(t)


-----------------------------------------------------------------------------
\* Two goroutines calling Minimize on one Cover, with no Add meanwhile.  The
\* calls write the same c.ss, c.es and c.essential without synchronization: the
\* steps interleave in any order, and while both are inside a call the runtime
\* may stop the program (fatal error: concurrent map writes).

Fault ==
    /\ \E t, u \in Threads : t # u /\ Running(t) /\ Running(u)
    /\ th' = [t \in Threads |-> [IdleThread EXCEPT !.pc = "fatal"]]
    /\ UNCHANGED <<c, added, lastCall>>

\* Subsets and Elements are opaque values that the code only compares, so the
\* stores are taken up to renaming: a store uses the first Subsets and the first
\* Elements.
FirstOf(S, U) == \A x \in S, y \in U : y < x => y \in S

InitConc ==
    /\ \E P \in SUBSET (Subsets \X Elements) :
          /\ Cardinality(P) <= MaxConcPairs
          /\ FirstOf({p[1] : p \in P}, Subsets)
          /\ FirstOf({p[2] : p \in P}, Elements)
          /\ added = P
          /\ c = CoverOf(P)
    /\ th = [t \in Threads |-> IdleThread]
    /\ lastCall = "AddNew"

\* Each goroutine calls Minimize once; the goroutines are numbered in the order
\* of their calls.
NextConc ==
    \/ \E t \in Threads :
          \/ (\A u \in Threads : u < t => th[u].pc # "idle") /\ MinimizeCall(t)
          \/ reduceSBegin(t)
          \/ reduceSOuter(t)
          \/ reduceSInner(t)
          \/ reduceEBegin(t)
          \/ reduceELoop(t)
          \/ simplifyReturn(t)
          \/ MinimizeEss(t)
          \/ MinimizeSearch(t)
    \/ Fault

SpecConc == InitConc /\ [][NextConc]_vars

-----------------------------------------------------------------------------
\* One caller calling Minimize again and again on a Cover that holds any store
\* (up to renaming).  The caller's goroutine keeps running while it is inside
\* Minimize: the call blocks on nothing and no other goroutine exists.

InitLive ==
    /\ \E P \in SUBSET (Subsets \X Elements) :
          /\ FirstOf({p[1] : p \in P}, Subsets)
          /\ FirstOf({p[2] : p \in P}, Elements)
          /\ added = P
          /\ c = CoverOf(P)
    /\ th = [t \in Threads |-> IdleThread]
    /\ lastCall = "AddNew"

NextLive == MinimizeStep(1)

SpecLive == InitLive /\ [][NextLive]_vars /\ WF_vars(MinimizeRun(1))

-----------------------------------------------------------------------------
\* nextPerm alone: a caller makes the vector of any length up to MaxLen whose
\* first w entries are true and calls nextPerm on it until it returns false.

InitPerm ==
    /\ \E n \in 0..MaxLen : \E w \in 0..n :
          th = [t \in Threads |->
                  IF t = 1
                  THEN [IdleThread EXCEPT !.pc = "perm", !.b = firstVector(n, w), !.w = w,
                                          !.more = TRUE, !.seen = <<firstVector(n, w)>>]
                  ELSE IdleThread]
    /\ c = New
    /\ added = {}
    /\ lastCall = "New"

nextPermCall(t) ==
    /\ th[t].pc = "perm"
    /\ th[t].more
    /\ LET r == nextPerm(th[t].b)
       IN  th' = [th EXCEPT ![t] = [@ EXCEPT !.b = r.b, !.more = r.more,
                                            !.seen = IF r.more THEN Append(@, r.b) ELSE @]]
    /\ UNCHANGED <<c, added, lastCall>>

NextPerm == nextPermCall(1)

SpecPerm == InitPerm /\ [][NextPerm]_vars

-----------------------------------------------------------------------------
\* simplify alone, in a Minimize call on a Cover that holds any store (up to
\* renaming) of NumDeepSubsets Subsets and NumDeepElements Elements with at most
\* MaxDeepPairs pairs: the stores on which simplify's loop goes round more than
\* once.

\* A set of numbers from lo on as a binary numeral, the least number first.
RECURSIVE Numeral(_, _, _)
Numeral(S, lo, hi) ==
    IF lo > hi THEN 0
    ELSE (IF lo \in S THEN 2 ^ (hi - lo) ELSE 0) + Numeral(S, lo + 1, hi)

\* Every store is a renaming of one whose Subsets, and whose Elements, are in
\* descending lexicographic order of their rows, and columns, of the incidence
\* table.
InOrder(P) ==
    /\ \A s \in DeepSubsets \ {NumDeepSubsets} :
          Numeral({p[2] : p \in {q \in P : q[1] = s}}, 10 + 1, 10 + NumDeepElements)
              >= Numeral({p[2] : p \in {q \in P : q[1] = s + 1}}, 10 + 1, 10 + NumDeepElements)
    /\ \A e \in DeepElements \ {10 + NumDeepElements} :
          Numeral({p[1] : p \in {q \in P : q[2] = e}}, 1, NumDeepSubsets)
              >= Numeral({p[1] : p \in {q \in P : q[2] = e + 1}}, 1, NumDeepSubsets)

InitDeep ==
    /\ \E P \in SUBSET (DeepSubsets \X DeepElements) :
          /\ Cardinality(P) <= MaxDeepPairs
          /\ InOrder(P)
          /\ {p[1] : p \in P} = DeepSubsets
          /\ {p[2] : p \in P} = DeepElements
          /\ added = P
          /\ c = CoverOf(P)
    /\ th = [t \in Threads |-> IdleThread]
    /\ lastCall = "AddNew"

\* The steps of simplify.
simplifyRun(t) ==
    \/ reduceSBegin(t)
    \/ reduceSOuter(t)
    \/ reduceSInner(t)
    \/ reduceEBegin(t)
    \/ reduceELoop(t)

NextDeep == MinimizeCall(1) \/ simplifyRun(1)

SpecDeep == InitDeep /\ [][NextDeep]_vars

-----------------------------------------------------------------------------
\* One Minimize call on a Cover that holds any store (up to renaming) of either
\* size, with the search of either version on what simplify leaves.

InitWidth == InitLive \/ InitDeep

NextWidth ==
    \/ MinimizeCall(1)
    \/ MinimizeRun(1)
    \/ MinimizeSearchByWidth(1)

SpecWidth == InitWidth /\ [][NextWidth]_vars

-----------------------------------------------------------------------------
\* Set cover, stated on the pairs supplied to Add.

AddedSubsets == {p[1] : p \in added}
AddedElements == {p[2] : p \in added}

\* T covers every Element ever added.
IsCoverOfAll(T) == \A e \in AddedElements : \E s \in T : <<s, e>> \in added

AllCovers == {T \in SUBSET AddedSubsets : IsCoverOfAll(T)}

MinimumCovers == {T \in AllCovers : \A U \in AllCovers : Cardinality(T) <= Cardinality(U)}

\* A result of Minimize as the set of its combinations, each a set of Subsets.
Combinations(result) == {Range(result[i]) : i \in 1..Len(result)}

Returned(t) == th[t].pc = "done"

-----------------------------------------------------------------------------
\* C1: every combination Minimize returns covers every Element ever added: each
\* Element was added with at least one Subset of the combination.
ReturnedCombinationsCover ==
    \A t \in Threads : Returned(t) =>
        \A i \in 1..Len(th[t].result) : IsCoverOfAll(Range(th[t].result[i]))

\* A call that needed the search returned two combinations for a store in which
\* every Element is present.
SearchReturnedTwoCovers ==
    \E t \in Threads :
        /\ Returned(t)
        /\ ~th[t].isUnique
        /\ Len(th[t].result) >= 2
        /\ AddedElements = Elements

\* C2: no set of recorded Subsets with fewer members than a returned combination
\* covers every Element of the store.
ReturnedCombinationsMinimum ==
    \A t \in Threads : Returned(t) =>
        \A i \in 1..Len(th[t].result) :
            \A T \in SUBSET AddedSubsets :
                Cardinality(T) < Len(th[t].result[i]) => ~IsCoverOfAll(T)

\* The search returned combinations of two Subsets although covers of three
\* Subsets exist as well.
SearchDroppedLongerCovers ==
    \E t \in Threads :
        /\ Returned(t)
        /\ ~th[t].isUnique
        /\ \E i \in 1..Len(th[t].result) : Len(th[t].result[i]) = 2
        /\ \E T \in AllCovers : Cardinality(T) = 3

\* C3: the result of Minimize is the set of all minimum covers of the store, each
\* listed exactly once.
ReturnsAllMinimumCovers ==
    \A t \in Threads : Returned(t) =>
        /\ Combinations(th[t].result) = MinimumCovers
        /\ Len(th[t].result) = Cardinality(MinimumCovers)

EmptyStoreReturnsEmptyCombination ==
    \A t \in Threads : (Returned(t) /\ DOMAIN c.inss = {}) => th[t].result = << <<>> >>

\* Minimize has returned on a Cover without Subsets.
MinimizedEmptyStore ==
    \E t \in Threads : Returned(t) /\ DOMAIN c.inss = {} /\ DOMAIN c.ines = {}

\* C6: no step of Minimize (initialize, a step of reduceS or reduceE, simplify's
\* return, the search, the return) changes the incidence store.
MinimizeKeepsStore ==
    [][(\E t \in Threads : th[t].pc # "idle" \/ th'[t].pc # "idle")
        => (c'.inss = c.inss /\ c'.ines = c.ines)]_vars

\* Inside a call, the reduction has removed a dominated Subset and moved another
\* to the essential set, so the snapshot differs from the store.
ReductionChangedSnapshot ==
    \E t \in Threads :
        /\ th[t].pc \in {"reduceS", "reduceE", "simplify_return"}
        /\ c.essential # {}
        /\ \E s \in DOMAIN c.inss : s \notin DOMAIN c.ss /\ s \notin c.essential
        /\ DOMAIN c.es # DOMAIN c.ines

\* C7: after any sequence of Add and Minimize calls, Minimize returns the same
\* set of combinations as Minimize on a new Cover holding the same pairs.
MinimizeDependsOnStoreOnly ==
    \A t \in Threads : Returned(t) =>
        Combinations(th[t].result) = Combinations(Minimize(CoverOf(added)))

\* Minimize has returned on a Cover whose essential set, left by an earlier call,
\* held a Subset that no returned combination contains.
MinimizedAfterEarlierCall ==
    \E t \in Threads :
        /\ Returned(t)
        /\ th[t].alone
        /\ \E s \in th[t].stale : \A i \in 1..Len(th[t].result) : s \notin Range(th[t].result[i])

\* C8: the store holds exactly the union of all pairs supplied to Add: Adds for
\* the same Subset accumulate, and a pair already present changes nothing.
StoreIsUnionOfAdded ==
    /\ c.inss = [s \in AddedSubsets |-> {e \in Elements : <<s, e>> \in added}]
    /\ c.ines = [e \in AddedElements |-> {s \in Subsets : <<s, e>> \in added}]

\* The last Add supplied a pair that was already present, and some Subset holds
\* more Elements than one Add can supply.
AddedAgainAndAccumulated ==
    /\ lastCall = "AddDup"
    /\ \E s \in DOMAIN c.inss : Cardinality(c.inss[s]) > MaxArgs

\* C9: Add(s) with no Elements leaves the whole Cover unchanged, and a Subset never
\* added with an Element is not in the store.
AddOfNothingIsNoOp ==
    /\ [][(\E t \in Threads, s \in Subsets : AddCall(t, s, <<>>)) => c' = c]_vars
    /\ [](DOMAIN c.inss \subseteq AddedSubsets)

\* Add with no Elements was the last call, on a Cover that records some Subsets
\* and not others.
AddedNothingToPopulatedCover ==
    /\ lastCall = "Add0"
    /\ DOMAIN c.inss # {}
    /\ DOMAIN c.inss # Subsets

\* C10: the store records s as covering e if and only if it records e as covered
\* by s, and no recorded Subset or Element has an empty set.
StoreIsConsistent ==
    /\ \A s \in Subsets, e \in Elements :
          (s \in DOMAIN c.inss /\ e \in c.inss[s]) <=> (e \in DOMAIN c.ines /\ s \in c.ines[e])
    /\ \A s \in DOMAIN c.inss : c.inss[s] # {}
    /\ \A e \in DOMAIN c.ines : c.ines[e] # {}

\* After an Add, an Element is covered by two Subsets and a Subset covers two
\* Elements.
AddedSharedElement ==
    /\ lastCall \in {"AddNew", "AddDup"}
    /\ \E e \in DOMAIN c.ines : Cardinality(c.ines[e]) >= 2
    /\ \E s \in DOMAIN c.inss : Cardinality(c.inss[s]) >= 2

-----------------------------------------------------------------------------
\* C11: a returned combination contains no Subset twice, and at all times no
\* Subset is both in the essential set and in the snapshot c.ss that the search
\* selects from.
NoSubsetTwice ==
    /\ c.essential \cap DOMAIN c.ss = {}
    /\ \A t \in Threads : Returned(t) =>
          \A i \in 1..Len(th[t].result) :
              Cardinality(Range(th[t].result[i])) = Len(th[t].result[i])

\* The search has returned combinations made of an essential Subset and of
\* Subsets selected from the snapshot.
SearchExtendedEssential ==
    \E t \in Threads :
        /\ Returned(t)
        /\ ~th[t].isUnique
        /\ c.essential # {}
        /\ \A i \in 1..Len(th[t].result) : Len(th[t].result[i]) > Cardinality(c.essential)

\* C12: inside a Minimize call and at its return, every Subset in the essential
\* set is a member of every minimum cover of the store.
EssentialInEveryMinimumCover ==
    (\E t \in Threads : th[t].pc # "idle") =>
        \A s \in c.essential : \A T \in MinimumCovers : s \in T

\* C13: when simplify has reported that the essential Subsets cover every
\* Element, the essential set is the only minimum cover of the store.
EssentialIsUniqueMinimumCover ==
    \A t \in Threads : (th[t].pc \in {"ess", "done"} /\ th[t].isUnique) =>
        MinimumCovers = {c.essential}

\* Two Subsets that the store records with exactly the same Elements.
Twins(a, b) ==
    /\ a # b
    /\ a \in DOMAIN c.inss
    /\ b \in DOMAIN c.inss
    /\ c.inss[a] = c.inss[b]

\* C14: of two Subsets added with exactly the same Elements, reduceS removes
\* neither while the other is its d; a returned combination with one of them and
\* not the other comes with the combination that has the other in its place; and
\* for the store 1 = {11}, 2 = {11} the result is the two combinations [1], [2].
TwinsAreInterchangeable ==
    /\ [][\A t \in Threads, a, b \in Subsets :
            (Twins(a, b) /\ th[t].pc = "reduceS_inner" /\ th[t].d = a /\ b \in DOMAIN c.ss)
                => b \in DOMAIN c'.ss]_vars
    /\ [](\A t \in Threads : Returned(t) =>
            /\ \A a, b \in Subsets : \A T \in Combinations(th[t].result) :
                  (Twins(a, b) /\ a \in T /\ b \notin T)
                      => ((T \ {a}) \cup {b}) \in Combinations(th[t].result)
            /\ added = {<<1, 11>>, <<2, 11>>}
                  => (Len(th[t].result) = 2 /\ Combinations(th[t].result) = {{1}, {2}}))

\* Minimize has returned, for a store with two Subsets of the same Elements and
\* a third Subset, a combination with one of the two and not the other.
ReturnedOneOfTwins ==
    \E t \in Threads :
        /\ Returned(t)
        /\ \E a, b \in Subsets : \E T \in Combinations(th[t].result) :
              Twins(a, b) /\ a \in T /\ b \notin T /\ Cardinality(T) >= 2

\* C15: whatever the order in which reduceS and reduceE range over c.ss and c.es,
\* simplify ends with the same snapshot and essential set, the ones of the run
\* with one fixed order; and whatever the order of the residual Subsets in the
\* search and the outcome of the sort, the set of returned combinations is the
\* same.
ResultIndependentOfOrder ==
    \A t \in Threads :
        /\ th[t].pc \in {"simplify_return", "ess", "search", "done"}
              => Snapshot(c) = Snapshot(simplify(initialize(CoverOf(added))).c)
        /\ Returned(t) =>
              \A ss \in Perms(DOMAIN c.ss) :
                  LET covers == allCovers(c, ss, <<>>, 1)
                  IN  ~th[t].isUnique =>
                        Combinations(th[t].result)
                            = {c.essential \cup Range(covers[i]) : i \in shortest(covers)}

\* The search has returned after a reduction that changed the snapshot and left
\* two or more Subsets to order.
SearchedReducedSnapshot ==
    \E t \in Threads :
        /\ Returned(t)
        /\ ~th[t].isUnique
        /\ Cardinality(DOMAIN c.ss) >= 2
        /\ DOMAIN c.ss # DOMAIN c.inss

\* C16: for every store Minimize runs to its return: when reduceE finds an Element
\* with one Subset, that Subset is in the snapshot; the search has Subsets to
\* select from; the result holds at least one combination; and every call of
\* the caller returns.
MinimizeCompletes ==
    /\ [](\A t \in Threads :
            /\ th[t].pc = "reduceE" =>
                  \A e \in th[t].itE :
                      /\ e \in DOMAIN c.es
                      /\ Cardinality(c.es[e]) = 1 => c.es[e] \subseteq DOMAIN c.ss
            /\ th[t].pc = "search" => DOMAIN c.ss # {}
            /\ Returned(t) => Len(th[t].result) >= 1)
    /\ (th[1].pc = "call_reduceS") ~> Returned(1)

\* Minimize has returned three combinations from a search in which no Subset had
\* been removed from the snapshot.
SearchedAllSubsets ==
    \E t \in Threads :
        /\ Returned(t)
        /\ ~th[t].isUnique
        /\ DOMAIN c.ss = Subsets
        /\ Len(th[t].result) = 3

\* C17: on every snapshot, dominates(a, b) is true exactly when every Element of
\* b in the snapshot is an Element of a and a has more Elements than b, that is
\* when a's Elements are a proper superset of b's; it is false for a = b and in
\* both directions for two Subsets with the same Elements.
DominatesIsProperSuperset ==
    \A a, b \in Subsets :
        /\ dominates(c, a, b) <=>
              /\ Get(c.ss, b) \subseteq Get(c.ss, a)
              /\ Cardinality(Get(c.ss, a)) >= Cardinality(Get(c.ss, b)) + 1
        /\ dominates(c, a, b) <=>
              /\ Get(c.ss, b) \subseteq Get(c.ss, a)
              /\ Get(c.ss, b) # Get(c.ss, a)
        /\ ~dominates(c, a, a)
        /\ Get(c.ss, a) = Get(c.ss, b) => (~dominates(c, a, b) /\ ~dominates(c, b, a))

\* reduceS compares d with a Subset that d dominates, with a Subset of the same
\* Elements as d, and with itself.
ComparedDominatedAndEqual ==
    \E t \in Threads :
        /\ th[t].pc = "reduceS_inner"
        /\ th[t].d \in th[t].itS
        /\ \E s \in th[t].itS : dominates(c, th[t].d, s)
        /\ \E s \in th[t].itS : s # th[t].d /\ c.ss[s] = c.ss[th[t].d]

\* reduceS has ended its pass over all pairs and is about to return th[t].ok.
reduceSReturns(t) == th[t].pc = "reduceS" /\ th[t].itD = {}

\* s is dominated by another Subset of the snapshot sn.
Dominated(sn, s) == \E d \in DOMAIN sn.ss : d # s /\ dominates(sn, d, s)

\* C18: when reduceS returns, the snapshot has lost exactly the Subsets that
\* another Subset of the snapshot dominated at entry and nothing else, no Subset
\* left is dominated, and the result is true exactly when a Subset was removed.
ReduceSRemovesDominated ==
    \A t \in Threads : reduceSReturns(t) =>
        LET en == th[t].entry
        IN  /\ DOMAIN c.ss = {s \in DOMAIN en.ss : ~Dominated(en, s)}
            /\ \A s \in DOMAIN c.ss : c.ss[s] = en.ss[s]
            /\ DOMAIN c.es = DOMAIN en.es
            /\ \A e \in DOMAIN c.es : c.es[e] = en.es[e] \cap DOMAIN c.ss
            /\ c.essential = en.essential
            /\ \A s \in DOMAIN c.ss : ~Dominated(c, s)
            /\ th[t].ok <=> DOMAIN c.ss # DOMAIN en.ss

\* reduceS returns true after it removed the one dominated Subset of three.
ReduceSRemovedOneOfThree ==
    \E t \in Threads :
        /\ reduceSReturns(t)
        /\ th[t].ok
        /\ Cardinality(DOMAIN th[t].entry.ss) = 3
        /\ Cardinality(DOMAIN c.ss) = 2

\* reduceE has ended its loop over c.es and is about to return th[t].ok.
reduceEReturns(t) == th[t].pc = "reduceE" /\ th[t].itE = {}

\* The Subsets that are the only Subset of some Element of the snapshot sn.
SoleCoverers(sn) == {s \in Subsets : \E e \in DOMAIN sn.es : sn.es[e] = {s}}

ReduceELeavesTwoCoverers ==
    \A t \in Threads : reduceEReturns(t) =>
        \A e \in DOMAIN c.es :
            /\ c.es[e] \subseteq DOMAIN c.ss
            /\ Cardinality(c.es[e]) >= 2
            /\ \A s \in c.es[e] : e \in c.ss[s]

\* reduceE returns after it removed an Element and left two others.
ReduceELeftTwoElements ==
    \E t \in Threads :
        /\ reduceEReturns(t)
        /\ th[t].ok
        /\ Cardinality(DOMAIN c.es) = 2

\* simplify is about to return len(c.es) == 0.
simplifyReturns(t) == th[t].pc = "simplify_return"

\* C21: when simplify returns, no Subset of the snapshot dominates another and no
\* Element of the snapshot has exactly one Subset, whichever of reduceE and
\* reduceS ended the loop.
SimplifyReachesFixedPoint ==
    \A t \in Threads : simplifyReturns(t) =>
        /\ \A s \in DOMAIN c.ss : ~Dominated(c, s)
        /\ \A e \in DOMAIN c.es : Cardinality(c.es[e]) # 1

\* simplify returns after reductions that made a Subset essential and left
\* Elements in the snapshot; the last reduction changed nothing.
SimplifyStoppedWithResidue ==
    \E t \in Threads :
        /\ simplifyReturns(t)
        /\ th[t].entry = Snapshot(c)
        /\ c.essential # {}
        /\ DOMAIN c.es # {}

\* An iteration of simplify's loop continues: reduceE has returned true and
\* reduceS is about to return true.
loopContinues(t) == reduceSReturns(t) /\ th[t].round.ss # EmptyMap /\ th[t].ok

\* Goroutine t is inside simplify.
inSimplify(t) ==
    th[t].pc \in {"call_reduceS", "reduceS", "reduceS_inner", "call_reduceE", "reduceE"}

\* A number that bounds the steps simplify still takes: the size of the snapshot
\* first (the first reduceS counts before everything, reduceE before the reduceS
\* that follows it, and a reduceS that has removed a Subset, after which the
\* loop goes on, as if it had not yet), then the keys the running loops still
\* produce.
Variant(t) ==
    LET size == Cardinality(DOMAIN c.ss) + Cardinality(DOMAIN c.es)
        k == Cardinality(DOMAIN c.inss) + Cardinality(DOMAIN c.ines)
        phase == IF th[t].pc \in {"call_reduceE", "reduceE"} THEN 1
                 ELSE IF th[t].first \/ th[t].ok THEN 2 ELSE 0
        pos == CASE th[t].pc \in {"call_reduceS", "call_reduceE"} -> (k + 1) * (k + 2)
                 [] th[t].pc = "reduceS" -> Cardinality(th[t].itD) * (k + 2)
                 [] th[t].pc = "reduceS_inner" ->
                        Cardinality(th[t].itD) * (k + 2) + 1 + Cardinality(th[t].itS)
                 [] th[t].pc = "reduceE" -> Cardinality(th[t].itE)
                 [] OTHER -> 0
    IN  IF inSimplify(t) THEN (2 * size + phase + 1) * ((k + 1) * (k + 2) + 1) + pos ELSE 0

\* C22: simplify terminates: inside simplify a step is always possible, every
\* step lowers a natural number, and no step adds a key to the snapshot; an
\* iteration of the loop that continues has removed at least one Element and at
\* least one Subset from the snapshot.
SimplifyShrinksAndTerminates ==
    /\ [](\A t \in Threads : loopContinues(t) =>
            /\ DOMAIN c.es \subseteq DOMAIN th[t].round.es
            /\ DOMAIN c.es # DOMAIN th[t].round.es
            /\ DOMAIN c.ss \subseteq DOMAIN th[t].round.ss
            /\ DOMAIN c.ss # DOMAIN th[t].round.ss)
    /\ [](\A t \in Threads : inSimplify(t) => ENABLED simplifyRun(t))
    /\ [][\A t \in Threads : inSimplify(t) =>
            /\ Variant(t)' < Variant(t)
            /\ DOMAIN c'.ss \subseteq DOMAIN c.ss
            /\ DOMAIN c'.es \subseteq DOMAIN c.es]_vars

\* An iteration of simplify's loop continues: reduceE made a Subset essential
\* and reduceS then removed a Subset that had become dominated.
LoopWentRoundAgain ==
    \E t \in Threads :
        /\ loopContinues(t)
        /\ th[t].entry.essential # {}
        /\ DOMAIN c.ss # DOMAIN th[t].entry.ss

\* C23: simplify returns true exactly when c.es has no key left; Minimize then
\* returns at once, one combination that lists each essential Subset once and
\* nothing else; otherwise it goes on to the search, which produces the result.
SimplifyDecidesUniqueness ==
    /\ [](\A t \in Threads :
            /\ th[t].pc = "ess" => (th[t].isUnique <=> DOMAIN c.es = {})
            /\ (Returned(t) /\ th[t].isUnique) =>
                  /\ Len(th[t].result) = 1
                  /\ Range(th[t].result[1]) = c.essential
                  /\ Len(th[t].result[1]) = Cardinality(c.essential))
    /\ [][\A t \in Threads :
            /\ (th[t].pc = "ess" /\ th'[t].pc # "ess") =>
                  th'[t].pc = IF th[t].isUnique THEN "done" ELSE "search"
            /\ (th[t].pc # "done" /\ th'[t].pc = "done") =>
                  th[t].pc = IF th[t].isUnique THEN "ess" ELSE "search"]_vars

\* Minimize has returned the two essential Subsets as its only combination
\* after simplify reported true.
ReturnedTwoEssentialSubsets ==
    \E t \in Threads :
        /\ Returned(t)
        /\ th[t].isUnique
        /\ Cardinality(c.essential) = 2
        /\ Len(th[t].result) = 1

\* The number of true entries of b.
Trues(b) == Cardinality({i \in 1..Len(b) : b[i]})

\* All vectors of length n with exactly w true entries.
Selections(n, w) == {v \in [1..n -> BOOLEAN] : Trues(v) = w}

\* C25: from the vector whose first w entries are true, the nextPerm calls never
\* change the length or the number of true entries and never produce a vector
\* twice; when nextPerm returns false, every vector of that length with exactly
\* w true entries has been visited exactly once; and for a length below 2 the
\* first call returns false.
NextPermVisitsEachSelectionOnce ==
    \A t \in Threads : th[t].pc = "perm" =>
        LET n == Len(th[t].seen[1])
            seen == th[t].seen
        IN  /\ Len(th[t].b) = n
            /\ Trues(th[t].b) = th[t].w
            /\ th[t].b = seen[Len(seen)]
            /\ \A i, k \in 1..Len(seen) : i # k => seen[i] # seen[k]
            /\ Range(seen) \subseteq Selections(n, th[t].w)
            /\ ~th[t].more => (Range(seen) = Selections(n, th[t].w)
                               /\ Len(seen) = Cardinality(Selections(n, th[t].w)))
            /\ n < 2 => Len(seen) = 1

\* nextPerm has returned false after the twenty vectors of length 6 with three
\* true entries.
NextPermEndedLongEnumeration ==
    \E t \in Threads :
        /\ th[t].pc = "perm"
        /\ ~th[t].more
        /\ Len(th[t].b) = 6
        /\ th[t].w = 3
        /\ Len(th[t].seen) = 20

-----------------------------------------------------------------------------
\* The residual problem of a call that needed the search: the snapshot that
\* simplify left, which the search only reads.

searched(t) == Returned(t) /\ ~th[t].isUnique

\* Selections of residual Subsets that cover every residual Element.
CoveringSelections ==
    {T \in SUBSET DOMAIN c.ss : \A e \in DOMAIN c.es : \E s \in T : e \in c.ss[s]}

LeastSelections ==
    {T \in CoveringSelections :
        \A U \in CoveringSelections : Cardinality(T) <= Cardinality(U)}

\* The search returns exactly the covering selections of least size, each joined
\* with the essential set and as long as the two together.
SearchReturnsLeastSelections ==
    \A t \in Threads : searched(t) =>
        /\ Combinations(th[t].result) = {c.essential \cup T : T \in LeastSelections}
        /\ \A i \in 1..Len(th[t].result) : \E T \in LeastSelections :
              Len(th[t].result[i]) = Cardinality(c.essential) + Cardinality(T)

\* C24: when simplify returns false the search returns exactly the covering
\* selections of residual Subsets of the least size w, each joined with the
\* essential set, and no selection wider than w is enumerated.
SearchStopsAtLeastWidth ==
    /\ SearchReturnsLeastSelections
    /\ \A t \in Threads : searched(t) =>
          \A T \in LeastSelections : th[t].w = Cardinality(T)

\* The search by width enumerates no selection wider than the least covering one.
WidthSearchStopsAtLeastWidth ==
    [][\A t \in Threads : MinimizeSearchByWidth(t) =>
          \A T \in LeastSelections : th'[t].w = Cardinality(T)]_vars

\* A search found covers of width 2 among three residual Subsets.
SearchFoundWidthTwoOfThree ==
    \E t \in Threads :
        /\ searched(t)
        /\ Cardinality(DOMAIN c.ss) = 3
        /\ \E T \in LeastSelections : Cardinality(T) = 2

-----------------------------------------------------------------------------
\* C26: Add changes only the store: the snapshot and the essential set are the
\* same after Add as before; they are empty on a new Cover, and no step other than
\* a step of Minimize changes them, so they are empty until the first Minimize.
AddLeavesSnapshotAndEssential ==
    /\ Snapshot(c) = Snapshot(New)
    /\ [][(\E t \in Threads, s \in Subsets, args \in SeqsUpTo(Elements, MaxArgs) :
              AddCall(t, s, args)) => Snapshot(c') = Snapshot(c)]_vars
    /\ [][Snapshot(c') # Snapshot(c) => \E t \in Threads : MinimizeStep(t)]_vars

\* Add put a new Element in the store of a Cover whose last Minimize left a
\* snapshot and an essential set: the new Element is in neither.
AddedAfterMinimize ==
    /\ lastCall = "AddNew"
    /\ c.essential # {}
    /\ c.ss # EmptyMap
    /\ \E e \in DOMAIN c.ines :
          /\ e \notin DOMAIN c.es
          /\ \A s \in c.essential : e \notin Get(c.inss, s)

-----------------------------------------------------------------------------
\* The relation a map records, read by Subset and read by Element.
PairsBySubset(m) == UNION {{<<s, e>> : e \in m[s]} : s \in DOMAIN m}
PairsByElement(m) == UNION {{<<s, e>> : s \in m[e]} : e \in DOMAIN m}

\* c.ss and c.es record one relation, and it is part of the store's.
Consistent(cv) ==
    /\ PairsBySubset(cv.ss) = PairsByElement(cv.es)
    /\ PairsBySubset(cv.ss) \subseteq PairsBySubset(cv.inss)
    /\ PairsBySubset(cv.ss) \subseteq PairsByElement(cv.ines)

\* C27: at every step of reduceS, reduceE and simplify the snapshot is consistent
\* in both directions and a sub-relation of the store, also after each single
\* removeS and after each removeE of reduceE's inner loop; a removed Subset is
\* neither a key of c.ss nor listed in c.es, a removed Element neither a key of
\* c.es nor listed in c.ss.
SnapshotConsistentInSimplify ==
    \A t \in Threads : (inSimplify(t) \/ simplifyReturns(t)) =>
        /\ Consistent(c)
        /\ \A s \in DOMAIN c.ss :
              LET c1 == removeS(c, s)
              IN  /\ Consistent(c1)
                  /\ s \notin DOMAIN c1.ss
                  /\ \A e \in DOMAIN c1.es : s \notin c1.es[e]
                  /\ \A E \in SUBSET c.ss[s] :
                        LET c2 == removeEs(c, s, c.ss[s] \ E)
                        IN  /\ Consistent(c2)
                            /\ E \cap DOMAIN c2.es = {}
                            /\ \A u \in DOMAIN c2.ss : E \cap c2.ss[u] = {}

\* reduceE is under way after Subsets and Elements were removed, and an Element
\* still in the snapshot lists fewer Subsets than in the store.
RemovedFromBothDirections ==
    \E t \in Threads :
        /\ th[t].pc = "reduceE"
        /\ DOMAIN c.ss # DOMAIN c.inss
        /\ DOMAIN c.es # DOMAIN c.ines
        /\ \E e \in DOMAIN c.es : c.es[e] # c.ines[e] /\ c.es[e] # {}

-----------------------------------------------------------------------------
-----------------------------------------------------------------------------
\* C29: on every residual problem that simplify leaves, the bitmask search (every
\* selection that is not empty, the covering ones kept, the shortest returned) and
\* the search by width return the same set of combinations, whatever order the
\* map iteration and the sort by degree give the Subsets.
SearchesReturnSameCombinations ==
    \A t \in Threads : th[t].pc = "search" =>
        \A ss, sw \in Perms(DOMAIN c.ss) : sortedByDegree(c, sw) =>
            LET covers == allCovers(c, ss, th[t].ess, 1)
            IN  {Range(covers[i]) : i \in shortest(covers)}
                    = Combinations(searchByWidth(c, sw, th[t].ess, 1).covers)

\* The search by width returned several combinations and stopped below the
\* number of residual Subsets, where the bitmask search goes on to wider covers.
WidthSearchStoppedEarly ==
    \E t \in Threads :
        /\ searched(t)
        /\ Len(th[t].result) >= 2
        /\ Cardinality(DOMAIN c.ss) >= 3
        /\ th[t].w < Cardinality(DOMAIN c.ss)
        /\ c.essential # {}

-----------------------------------------------------------------------------
\* C30: the combinations one Minimize call returns are pairwise distinct as sets
\* of Subsets: no two entries of the result hold the same Subsets.
NoCoverListedTwice ==
    \A t \in Threads : Returned(t) =>
        \A i, k \in 1..Len(th[t].result) :
            i # k => Range(th[t].result[i]) # Range(th[t].result[k])

\* A search returned three or more combinations, two of them with a residual
\* Subset in common.
ReturnedOverlappingCombinations ==
    \E t \in Threads :
        /\ searched(t)
        /\ Len(th[t].result) >= 3
        /\ \E i, k \in 1..Len(th[t].result) :
              /\ i # k
              /\ \E s \in DOMAIN c.ss : s \in Range(th[t].result[i]) \cap Range(th[t].result[k])

====
